---- MODULE Spec2Model ----
(***************************************************************************)
(* Streaming session manager of python-service/streaming.py: one WebSocket *)
(* connection handled by StreamingManager.handle_websocket, its            *)
(* StreamingSession, and the silence-check task the session arms.          *)
(*                                                                         *)
(* Every state of the model is a state in which all coroutines are         *)
(* suspended at an await (receive_text, send_json, asyncio.sleep); an      *)
(* action is the synchronous run of one coroutine from one await to the    *)
(* next.  The ASR call transcribe_chunk is synchronous, so it never spans  *)
(* two actions.                                                            *)
(*                                                                         *)
(* Time is kept relative: the remaining sleep of a task, the remaining     *)
(* grace wait and the time elapsed since last_chunk_time, in ms.           *)
(***************************************************************************)
EXTENDS Integers, Sequences, FiniteSets, TLC

(* ------------------------------ bounds -------------------------------- *)
MaxMsgs == 4      \* messages the client sends on the connection
MaxInbox == 1     \* messages received by the socket and not yet read
MaxCalls == 3     \* calls made on a session by direct callers

ChunkKinds == {<<4000, 1000>>, <<24000, 1000>>, <<48000, 1000>>, <<24000, 1200>>}
                                     \* <<bytes, timestamp (ms)>> of one audio_chunk
WallClocks == {900, 1100}            \* time.time() * 1000 at a call
Cutoffs == {0, 1000}                 \* cutoffTimestamp values
GracePeriods == {200}                \* gracePeriodMs values
TickSteps == {400}                   \* time advances in these steps (ms)
ElapsedAfterSetBack == {0}           \* elapsed time (ms) after the clock was set back

(* -------------------------- program constants ------------------------- *)
min_chunk_size == 48000   \* int(16000 * 2 * chunk_interval), chunk_interval = 1.5
min_bytes == 8000         \* 16000 * 2 * 0.25
silence_timeout == 800    \* 0.8 s, in ms
min_samples == 8000       \* sample_rate // 2 samples of 2 bytes each

None == <<>>              \* Python's None for an optional number <<n>>

VARIABLES
    inbox,                    \* messages the socket holds for receive_text
    nSent,                    \* messages the client has sent
    peerGone,                 \* the peer has disconnected
    graceArrivals,            \* the chunks that arrived during the grace wait of flush id
    out,                      \* every send_json attempt, in order
    closeCode,                \* code of websocket.close, 0 while open
    sessions,                 \* StreamingManager.sessions (its keys)
    session_id,               \* handle_websocket's local
    audio_buffer,             \* StreamingSession.audio_buffer, as chunks
    is_active,
    sinceChunk,               \* time.time() - last_chunk_time, saturating
    process_until_timestamp,
    silence_check_task,       \* the task the session's handle refers to
    grace,                    \* the asyncio.sleep of flush_buffer_with_cutoff
    pc, ctx, hsend,           \* where the connection's coroutine is suspended
    asrLog,                   \* every transcribe_chunk call, in order
    lastFlush,                \* the buffer the latest flush evaluated
    lastOp,                   \* the session method that last changed the session
    lastWall,                 \* time.time() * 1000 as process_audio_chunk last read it
    exitBy,                   \* how handle_websocket left its try block
    vad,                      \* one call of VADService.has_sufficient_speech
    orphans,                  \* live silence-check tasks the session no longer refers to
    registry                  \* StreamingManager.sessions shared by several connections

vars == <<inbox, nSent, peerGone, graceArrivals, out, closeCode, sessions,
          session_id, audio_buffer, is_active, sinceChunk,
          process_until_timestamp, silence_check_task, grace, pc, ctx, hsend,
          asrLog, lastFlush, lastOp, lastWall, exitBy, vad, orphans, registry>>

(* ------------------------------ helpers ------------------------------- *)
RECURSIVE BufLen(_)
BufLen(buf) == IF buf = <<>> THEN 0 ELSE Head(buf).size + BufLen(Tail(buf))

Max(a, b) == IF a >= b THEN a ELSE b
Min(a, b) == IF a <= b THEN a ELSE b

NoTask == [st |-> "none", remaining |-> 0, sending |-> "none"]
NoGrace == [on |-> FALSE, remaining |-> 0, id |-> 0]
NoFlush == [by |-> "none", id |-> 0, buf |-> <<>>, cutoff |-> None]
NoArrivals == [id |-> 0, G |-> 0, chunks |-> <<>>]
NoCall == [called |-> FALSE]
NoRegistry == [used |-> FALSE]
ExcKinds == {"WebSocketDisconnect", "RuntimeError"}
AsrOutcomes == {"text", "empty", "raise"}

(* The state the coroutines act on, as one record. *)
S == [buf |-> audio_buffer, active |-> is_active, since |-> sinceChunk,
      cutoff |-> process_until_timestamp, task |-> silence_check_task,
      grace |-> grace, pc |-> pc, ctx |-> ctx, hsend |-> hsend,
      out |-> out, close |-> closeCode, sessions |-> sessions,
      sid |-> session_id, asr |-> asrLog, last |-> lastFlush,
      op |-> lastOp, wall |-> lastWall, gone |-> peerGone, exit |-> exitBy,
      orphans |-> orphans]

\* The variables take the values of record next (evaluated once).
Commit(next) ==
    \E s \in {next} :
        /\ audio_buffer' = s.buf
        /\ is_active' = s.active
        /\ sinceChunk' = s.since
        /\ process_until_timestamp' = s.cutoff
        /\ silence_check_task' = s.task
        /\ grace' = s.grace
        /\ pc' = s.pc
        /\ ctx' = s.ctx
        /\ hsend' = s.hsend
        /\ out' = s.out
        /\ closeCode' = s.close
        /\ sessions' = s.sessions
        /\ session_id' = s.sid
        /\ asrLog' = s.asr
        /\ lastFlush' = s.last
        /\ lastOp' = s.op
        /\ lastWall' = s.wall
        /\ exitBy' = s.exit
        /\ orphans' = s.orphans
        /\ vad' = vad /\ registry' = registry

(* --------------------------- StreamingSession ------------------------- *)
Attempt(type, res, by) == [type |-> type, res |-> res, by |-> by]

\* `await self.websocket.send_json(...)` by the connection's coroutine: it is
\* suspended until HandlerSendDone.
begin_send(s, type) == [s EXCEPT !.pc = "send", !.hsend = type]

\* Back in the read loop at `await websocket.receive_text()`.
read_loop(s) == [s EXCEPT !.pc = "recv", !.ctx = "none", !.hsend = "none"]

\* A cancel() that is never issued.
cancel_ignored(s, delivered) == s

\* `if self.silence_check_task and not self.silence_check_task.done():
\*      self.silence_check_task.cancel()`.  A cancelled task runs no further
\* session code: CancelledError is raised at its await and ends it.  A task
\* cancelled while it awaits send_json has written its message or not
\* (delivered), depending on where the transport suspended it.
cancel(s, delivered) ==
    IF s.task.st = "sleep"
    THEN [s EXCEPT !.task = [NoTask EXCEPT !.st = "cancelled"]]
    ELSE IF s.task.st = "send"
    THEN [s EXCEPT !.task = [NoTask EXCEPT !.st = "cancelled"],
                   !.out = Append(@, Attempt(s.task.sending,
                                IF s.gone THEN "failed"
                                ELSE IF delivered THEN "sent" ELSE "cancelled",
                                "timer"))]
    ELSE s

\* `self.silence_check_task = asyncio.create_task(self._check_silence_timeout())`
\* The handle is overwritten: a task it referred to that is still live goes
\* on running without a reference.
arm(s) ==
    [s EXCEPT !.task = [st |-> "sleep", remaining |-> silence_timeout,
                        sending |-> "none"],
              !.orphans = IF s.task.st \in {"sleep", "send"} THEN @ + 1 ELSE @]

\* transcription_service.transcribe_chunk: r is what the model does with the
\* audio ("text": non-blank text, "empty": blank text, "raise": an exception).
transcribe_chunk(buf, r) ==
    IF r = "raise" THEN "raise"
    ELSE IF BufLen(buf) < 2 * min_samples THEN "empty"
    ELSE r

\* Variants of the comparisons below, each off by its boundary case.
reaches_threshold_strict(buf) == BufLen(buf) > min_chunk_size
after_cutoff_inclusive(chunk_timestamp, cutoff) == chunk_timestamp >= cutoff
has_remaining_unchecked(buf) == TRUE

\* `if buffer_size < min_bytes:` of _process_audio_buffer
below_floor(buf) == BufLen(buf) < min_bytes

\* `if len(self.audio_buffer) >= min_chunk_size:` of process_audio_chunk
reaches_threshold(buf) == BufLen(buf) >= min_chunk_size

\* `if chunk_timestamp > self.process_until_timestamp:` of process_audio_chunk
after_cutoff(chunk_timestamp, cutoff) == chunk_timestamp > cutoff

\* `if len(self.audio_buffer) >= min_bytes:` of the remaining-audio block
has_remaining(buf) == BufLen(buf) >= min_bytes

\* _process_audio_buffer that copies the buffer without clearing it.
process_audio_buffer_keep(s, r, by) ==
    IF Len(s.buf) = 0 THEN [s |-> s, send |-> "none"]
    ELSE IF below_floor(s.buf) THEN [s |-> s, send |-> "none"]
    ELSE LET res == transcribe_chunk(s.buf, r)
             s1 == [s EXCEPT !.asr = Append(@, [by |-> by, chunks |-> s.buf,
                                                res |-> res, cutoff |-> s.cutoff])]
         IN [s |-> s1,
             send |-> IF res = "text" THEN "transcription"
                      ELSE IF res = "raise" THEN "error" ELSE "none"]

\* _process_audio_buffer up to its first await: the session after it, and the
\* message it goes on to send ("none": it returns without sending).
process_audio_buffer(s, r, by) ==
    IF Len(s.buf) = 0 THEN [s |-> s, send |-> "none"]
    ELSE IF below_floor(s.buf) THEN [s |-> s, send |-> "none"]
    ELSE LET res == transcribe_chunk(s.buf, r)
             s1 == [s EXCEPT !.buf = <<>>,
                             !.asr = Append(@, [by |-> by, chunks |-> s.buf,
                                                res |-> res, cutoff |-> s.cutoff])]
         IN [s |-> s1,
             send |-> IF res = "text" THEN "transcription"
                      ELSE IF res = "raise" THEN "error" ELSE "none"]

\* StreamingManager.remove_session, then handle_websocket returns.
remove_session(s) ==
    [s EXCEPT !.sessions = @ \ {s.sid}, !.pc = "done", !.ctx = "none",
              !.hsend = "none"]

\* What the caller of a flush does when the flush has returned.
after_flush(s) ==
    CASE s.ctx \in {"flush", "cutoff"} -> begin_send(s, "buffer_flushed")
      [] s.ctx = "end" -> begin_send(s, "stream_ended")
      [] s.ctx = "final" -> remove_session(s)
      [] OTHER -> read_loop(s)

\* A flush that returns without its final `self.audio_buffer.clear()`.
flush_end_without_clear(s) ==
    after_flush([s EXCEPT !.cutoff = IF s.ctx \in {"cutoff", "api_cutoff"}
                                     THEN None ELSE @,
                          !.op = IF s.ctx \in {"cutoff", "api_cutoff"}
                                 THEN "flush_buffer_with_cutoff" ELSE "flush_buffer"])

\* `self.audio_buffer.clear()`, and in flush_buffer_with_cutoff
\* `self.process_until_timestamp = None`.
flush_end(s) ==
    after_flush([s EXCEPT !.buf = <<>>,
                          !.cutoff = IF s.ctx \in {"cutoff", "api_cutoff"}
                                     THEN None ELSE @,
                          !.op = IF s.ctx \in {"cutoff", "api_cutoff"}
                                 THEN "flush_buffer_with_cutoff" ELSE "flush_buffer"])

\* The "also check if there's any remaining audio" block of flush_buffer and
\* flush_buffer_with_cutoff.
flush_tail(s, r2) ==
    IF has_remaining(s.buf)
    THEN LET res == transcribe_chunk(s.buf, r2)
             s1 == [s EXCEPT !.asr = Append(@, [by |-> "remaining", chunks |-> s.buf,
                                                res |-> res, cutoff |-> s.cutoff])]
         IN IF res = "text" THEN begin_send(s1, "transcription_final")
            ELSE flush_end(s1)
    ELSE flush_end(s)

\* The caller's code after `await self._process_audio_buffer()`.
after_pab(s, r2) ==
    IF s.ctx = "chunk"
    THEN read_loop(arm(cancel(s, TRUE)))
    ELSE flush_tail(s, r2)

\* `await self._process_audio_buffer()` by the connection's coroutine.
call_process_audio_buffer(s, r, r2) ==
    LET p == process_audio_buffer(s, r, s.ctx)
    IN IF p.send # "none" THEN begin_send(p.s, p.send) ELSE after_pab(p.s, r2)

\* The buffer evaluation shared by flush_buffer and flush_buffer_with_cutoff.
evaluate_buffer(s, id, r, r2) ==
    LET s1 == [s EXCEPT !.last = [by |-> s.ctx, id |-> id, buf |-> s.buf,
                                  cutoff |-> s.cutoff]]
    IN IF Len(s1.buf) > 0 THEN call_process_audio_buffer(s1, r, r2)
       ELSE flush_tail(s1, r2)

\* flush_buffer, called in context c ("flush", "end", "final").
flush_buffer(s, c, id, r, r2, delivered) ==
    evaluate_buffer([cancel(s, delivered) EXCEPT !.ctx = c], id, r, r2)

\* flush_buffer_with_cutoff up to `await asyncio.sleep(grace_period_seconds)`.
flush_buffer_with_cutoff(s, id, T, G, delivered) ==
    [cancel(s, delivered) EXCEPT
        !.ctx = "cutoff", !.cutoff = <<T>>, !.pc = "grace",
        !.grace = [on |-> TRUE, remaining |-> Max(G, 0), id |-> id]]

\* flush_buffer_with_cutoff left by an exception before its grace wait is
\* over: TypeError of `grace_period_ms / 1000.0` when grace_period_ms is not
\* a number, CancelledError raised at `await asyncio.sleep(...)` when the
\* caller's task is cancelled.  Nothing after the raising line runs.
flush_buffer_with_cutoff_raises(s) ==
    read_loop([s EXCEPT !.grace = NoGrace, !.op = "flush_buffer_with_cutoff"])

\* process_audio_chunk; wall is time.time() * 1000 at the call.
process_audio_chunk(s, chunk, wall, r, r2, delivered) ==
    LET chunk_timestamp == IF chunk.ts = None THEN wall ELSE chunk.ts[1]
        s0 == [s EXCEPT !.wall = IF s.cutoff # None /\ chunk.ts = None
                                 THEN <<wall>> ELSE None]
    IN IF s.cutoff # None /\ after_cutoff(chunk_timestamp, s.cutoff[1])
       THEN s0
       ELSE LET s1 == [s0 EXCEPT !.buf = Append(@, chunk), !.since = 0,
                                 !.ctx = "chunk", !.op = "process_audio_chunk"]
            IN IF reaches_threshold(s1.buf)
               THEN call_process_audio_buffer(cancel(s1, delivered), r, r2)
               ELSE read_loop(arm(cancel(s1, delivered)))

\* The except clause that ends the try block of handle_websocket: in the
\* read loop (`except WebSocketDisconnect: break`, `except Exception: break`)
\* or around it (`except WebSocketDisconnect: pass`, `except Exception:` with
\* close(1011)).
leave(s, how) == [s EXCEPT !.exit = how]
loop_except(s, exc) ==
    leave(s, IF exc = "WebSocketDisconnect" THEN "disconnect" ELSE "loop_exception")

\* A `finally:` that removes the session without the final flush.
finally_block_without_flush(s, r, r2, delivered) ==
    IF s.sid # "None" THEN remove_session(s)
    ELSE [s EXCEPT !.pc = "done", !.ctx = "none", !.hsend = "none"]

\* The `finally:` of handle_websocket.
finally_block(s, r, r2, delivered) ==
    IF s.sid # "None" THEN flush_buffer(s, "final", 0, r, r2, delivered)
    ELSE [s EXCEPT !.pc = "done", !.ctx = "none", !.hsend = "none"]

\* A close that sends no close frame.
close_without_code(s, code) == s

\* `await websocket.close(code=...)`; it raises when the peer is gone.
close(s, code) == IF s.gone THEN s ELSE [s EXCEPT !.close = code]

\* StreamingManager.create_session
create_session(s, id) ==
    [s EXCEPT !.sid = id, !.sessions = @ \cup {id}, !.buf = <<>>,
              !.active = TRUE, !.since = 0, !.cutoff = None, !.task = NoTask]

(* ------------------------------ messages ------------------------------ *)
Msg(type, size, ts, cutoff, g) ==
    [type |-> type, size |-> size, ts |-> ts, cutoff |-> cutoff, grace |-> g,
     id |-> 0]

FirstMsgs == {Msg(t, 0, None, None, 0) :
                 t \in {"connect", "unknown", "malformed", "not_object"}}

ChunkMsgs == {Msg("audio_chunk", k[1], <<k[2]>>, None, 0) : k \in ChunkKinds}

FlushMsgs == {Msg("flush_buffer", 0, None, None, 0)}
             \cup {Msg("flush_buffer", 0, None, <<T>>, g) : T \in Cutoffs, g \in GracePeriods}

LaterMsgs == ChunkMsgs \cup FlushMsgs
             \cup {Msg(t, 0, None, None, 0) :
                      t \in {"end_stream", "unknown", "malformed", "not_object"}}

Chunk(m) == [id |-> m.id, size |-> m.size, ts |-> m.ts]

\* The outcomes that matter to a step: the exception a failing send raises,
\* whether a task cancelled in mid-send had written its message, the wall
\* clock when the chunk carries no timestamp.
Excs == IF peerGone THEN ExcKinds ELSE {"WebSocketDisconnect"}
Delivered == IF silence_check_task.st = "send" THEN BOOLEAN ELSE {TRUE}
Walls(m) == IF m.ts = None THEN WallClocks ELSE {0}

(* ----------------------------- environment ---------------------------- *)
\* The client sends one more message; the socket holds it until the
\* connection's coroutine reads it.
ClientSend ==
    /\ ~peerGone /\ pc # "done" /\ closeCode = 0
    /\ nSent < MaxMsgs /\ Len(inbox) < MaxInbox
    /\ \E m0 \in (IF nSent = 0 THEN FirstMsgs ELSE LaterMsgs) :
         LET m == [m0 EXCEPT !.id = nSent + 1]
         IN /\ inbox' = Append(inbox, m)
            /\ graceArrivals' = IF grace.on /\ m.type = "audio_chunk"
                                THEN [graceArrivals EXCEPT !.chunks = Append(@, Chunk(m))]
                                ELSE graceArrivals
    /\ nSent' = nSent + 1
    /\ UNCHANGED <<peerGone, out, closeCode, sessions, session_id, audio_buffer,
                   is_active, sinceChunk, process_until_timestamp,
                   silence_check_task, grace, pc, ctx, hsend, asrLog, lastFlush, lastOp,
                   lastWall, exitBy, vad, orphans,
                   registry>>

PeerDisconnect ==
    /\ ~peerGone /\ pc # "done" /\ closeCode = 0
    /\ peerGone' = TRUE
    /\ UNCHANGED <<inbox, nSent, graceArrivals, out, closeCode, sessions,
                   session_id, audio_buffer, is_active, sinceChunk,
                   process_until_timestamp, silence_check_task, grace, pc, ctx,
                   hsend, asrLog, lastFlush, lastOp, lastWall, exitBy, vad, orphans,
                   registry>>

\* d ms pass.
Tick ==
    /\ pc # "done"
    /\ \E d \in TickSteps :
         /\ sinceChunk' = Min(sinceChunk + d, silence_timeout)
         /\ silence_check_task' =
                IF silence_check_task.st = "sleep"
                THEN [silence_check_task EXCEPT !.remaining = Max(@ - d, 0)]
                ELSE silence_check_task
         /\ grace' = IF grace.on THEN [grace EXCEPT !.remaining = Max(@ - d, 0)]
                     ELSE grace
    /\ <<silence_check_task', grace'>> # <<silence_check_task, grace>>
    /\ UNCHANGED <<inbox, nSent, peerGone, graceArrivals, out, closeCode,
                   sessions, session_id, audio_buffer, is_active,
                   process_until_timestamp, pc, ctx, hsend, asrLog, lastFlush,
                   lastOp, lastWall, exitBy, vad, orphans,
                   registry>>

(* ------------------------- the silence-check task --------------------- *)
\* A silence check without the test of the elapsed time.
check_silence_timeout_unconditional(s, r) ==
    LET p == process_audio_buffer(s, r, "silence")
    IN IF p.send # "none"
       THEN [p.s EXCEPT !.task = [st |-> "send", remaining |-> 0, sending |-> p.send]]
       ELSE [p.s EXCEPT !.task = [NoTask EXCEPT !.st = "done"]]

\* A silence check that never flushes.
check_silence_timeout_never(s, r) == [s EXCEPT !.task = [NoTask EXCEPT !.st = "done"]]

\* _check_silence_timeout after `await asyncio.sleep(self.silence_timeout)`.
check_silence_timeout(s, r) ==
    LET finished == [s EXCEPT !.task = [NoTask EXCEPT !.st = "done"]]
    IN IF s.since >= silence_timeout /\ Len(s.buf) > 0
       THEN IF BufLen(s.buf) >= min_bytes
            THEN LET p == process_audio_buffer(s, r, "silence")
                 IN IF p.send # "none"
                    THEN [p.s EXCEPT !.task = [st |-> "send", remaining |-> 0,
                                               sending |-> p.send]]
                    ELSE [p.s EXCEPT !.task = [NoTask EXCEPT !.st = "done"]]
            ELSE finished
       ELSE finished

TimerFire ==
    /\ silence_check_task.st = "sleep" /\ silence_check_task.remaining = 0
    /\ \E r \in AsrOutcomes : Commit(check_silence_timeout(S, r))
    /\ UNCHANGED <<inbox, nSent, peerGone, graceArrivals>>

\* The end of a send_json awaited inside _process_audio_buffer, with its
\* except clauses: sending is "transcription" or "error".
send_result(s, sending, exc, by) ==
    IF ~s.gone
    THEN [s |-> [s EXCEPT !.out = Append(@, Attempt(sending, "sent", by))],
          send |-> "none"]
    ELSE LET s1 == [s EXCEPT !.out = Append(@, Attempt(sending, "failed", by))]
         IN IF sending = "transcription" /\ exc = "RuntimeError"
            THEN [s |-> s1, send |-> "error"]
            ELSE [s |-> [s1 EXCEPT !.active = FALSE], send |-> "none"]

TimerSendDone ==
    /\ silence_check_task.st = "send"
    /\ \E exc \in Excs :
         LET p == send_result(S, silence_check_task.sending, exc, "timer")
         IN Commit([p.s EXCEPT !.task =
                       IF p.send # "none"
                       THEN [st |-> "send", remaining |-> 0, sending |-> p.send]
                       ELSE [NoTask EXCEPT !.st = "done"]])
    /\ UNCHANGED <<inbox, nSent, peerGone, graceArrivals>>

(* ---------------------- handle_websocket's coroutine ------------------ *)
\* `initial_message = await websocket.receive_text()` and what follows it.
RecvInitial ==
    /\ pc = "accept"
    /\ \/ /\ inbox # <<>>
          /\ inbox' = Tail(inbox)
          /\ LET m == Head(inbox)
             IN CASE m.type = "connect" ->
                       Commit(begin_send(create_session(S, "s1"), "connected"))
                  [] m.type \in {"malformed", "not_object"} ->
                       Commit([close(leave(S, "outer_exception"), 1011)
                                 EXCEPT !.pc = "done"])
                  [] OTHER ->
                       Commit([close(leave(S, "invalid_initial"), 1008)
                                 EXCEPT !.pc = "done"])
       \/ /\ inbox = <<>> /\ peerGone
          /\ inbox' = inbox
          /\ Commit([leave(S, "disconnect") EXCEPT !.pc = "done"])
    /\ UNCHANGED <<nSent, peerGone, graceArrivals>>

HandleAudioChunk ==
    /\ pc = "recv" /\ inbox # <<>> /\ Head(inbox).type = "audio_chunk"
    /\ inbox' = Tail(inbox)
    /\ \E r \in AsrOutcomes, r2 \in AsrOutcomes, delivered \in Delivered,
       wall \in Walls(Head(inbox)) :
         Commit(IF Head(inbox).size > 0
                THEN process_audio_chunk(S, Chunk(Head(inbox)), wall, r, r2, delivered)
                ELSE S)
    /\ UNCHANGED <<nSent, peerGone, graceArrivals>>

HandleFlushBuffer ==
    /\ pc = "recv" /\ inbox # <<>> /\ Head(inbox).type = "flush_buffer"
    /\ inbox' = Tail(inbox)
    /\ LET m == Head(inbox)
       IN \E r \in AsrOutcomes, r2 \in AsrOutcomes, delivered \in Delivered :
            IF m.cutoff # None /\ m.cutoff[1] # 0
            THEN /\ Commit(flush_buffer_with_cutoff(S, m.id, m.cutoff[1], m.grace, delivered))
                 /\ graceArrivals' = [id |-> m.id, G |-> m.grace, chunks |-> <<>>]
            ELSE /\ Commit(flush_buffer(S, "flush", m.id, r, r2, delivered))
                 /\ graceArrivals' = graceArrivals
    /\ UNCHANGED <<nSent, peerGone>>

\* The end of `await asyncio.sleep(grace_period_seconds)`.
GraceEnd ==
    /\ pc = "grace" /\ grace.on /\ grace.remaining = 0
    /\ \E r \in AsrOutcomes, r2 \in AsrOutcomes :
         Commit(evaluate_buffer([S EXCEPT !.grace = NoGrace], grace.id, r, r2))
    /\ UNCHANGED <<inbox, nSent, peerGone, graceArrivals>>

HandleEndStream ==
    /\ pc = "recv" /\ inbox # <<>> /\ Head(inbox).type = "end_stream"
    /\ inbox' = Tail(inbox)
    /\ \E r \in AsrOutcomes, r2 \in AsrOutcomes, delivered \in Delivered :
         Commit(flush_buffer(S, "end", Head(inbox).id, r, r2, delivered))
    /\ UNCHANGED <<nSent, peerGone, graceArrivals>>

\* A read loop whose `except Exception: break` also takes invalid JSON and
\* unhandled types.
HandleIgnoredBreaks ==
    /\ pc = "recv" /\ inbox # <<>> /\ Head(inbox).type \in {"malformed", "unknown"}
    /\ inbox' = Tail(inbox)
    /\ \E r \in AsrOutcomes, r2 \in AsrOutcomes, delivered \in Delivered :
         Commit(finally_block(leave(S, "loop_exception"), r, r2, delivered))
    /\ UNCHANGED <<nSent, peerGone, graceArrivals>>

\* Invalid JSON (logged) or a type no branch handles: the loop continues.
HandleIgnored ==
    /\ pc = "recv" /\ inbox # <<>> /\ Head(inbox).type \in {"malformed", "unknown"}
    /\ inbox' = Tail(inbox)
    /\ UNCHANGED <<nSent, peerGone, graceArrivals, out, closeCode, sessions,
                   session_id, audio_buffer, is_active, sinceChunk,
                   process_until_timestamp, silence_check_task, grace, pc, ctx,
                   hsend, asrLog, lastFlush, lastOp, lastWall, exitBy, vad, orphans,
                   registry>>

\* receive_text raises WebSocketDisconnect: break, then the finally block.
RecvDisconnect ==
    /\ pc = "recv" /\ inbox = <<>> /\ peerGone
    /\ \E r \in AsrOutcomes, r2 \in AsrOutcomes, delivered \in Delivered :
         Commit(finally_block(leave(S, "disconnect"), r, r2, delivered))
    /\ UNCHANGED <<inbox, nSent, peerGone, graceArrivals>>

\* The message is valid JSON but not an object: `data.get` raises
\* AttributeError, `except Exception:` logs it and breaks out of the loop.
HandleLoopError ==
    /\ pc = "recv" /\ inbox # <<>> /\ Head(inbox).type = "not_object"
    /\ inbox' = Tail(inbox)
    /\ \E r \in AsrOutcomes, r2 \in AsrOutcomes, delivered \in Delivered :
         Commit(finally_block(leave(S, "loop_exception"), r, r2, delivered))
    /\ UNCHANGED <<nSent, peerGone, graceArrivals>>

\* The end of a send_json the connection's coroutine awaits.
handler_send_done(s, exc, r, r2, delivered) ==
    LET failed == Attempt(s.hsend, "failed", "handler")
        sent == Attempt(s.hsend, "sent", "handler")
    IN CASE s.hsend \in {"transcription", "error"} ->
              LET p == send_result(s, s.hsend, exc, "handler")
              IN IF p.send # "none" THEN begin_send(p.s, p.send)
                 ELSE after_pab(p.s, r2)
         [] s.hsend = "transcription_final" ->
              IF ~s.gone THEN flush_end([s EXCEPT !.out = Append(@, sent)])
              ELSE flush_end([s EXCEPT !.out = Append(@, failed),
                                       !.active = IF exc = "WebSocketDisconnect"
                                                  THEN FALSE ELSE @])
         [] s.hsend = "stream_ended" ->
              IF ~s.gone
              THEN finally_block(leave(close([s EXCEPT !.out = Append(@, sent)], 1000),
                                       "end_stream"),
                                 r, r2, delivered)
              ELSE finally_block(loop_except([s EXCEPT !.out = Append(@, failed)], exc),
                                 r, r2, delivered)
         [] s.hsend = "connected" ->
              IF ~s.gone THEN read_loop([s EXCEPT !.out = Append(@, sent)])
              ELSE finally_block(
                       leave([s EXCEPT !.out = Append(@, failed)],
                             IF exc = "WebSocketDisconnect" THEN "disconnect"
                             ELSE "outer_exception"),
                       r, r2, delivered)
         [] OTHER ->   \* "buffer_flushed"
              IF ~s.gone THEN read_loop([s EXCEPT !.out = Append(@, sent)])
              ELSE finally_block(loop_except([s EXCEPT !.out = Append(@, failed)], exc),
                                 r, r2, delivered)

HandlerSendDone ==
    /\ pc = "send"
    /\ \E exc \in Excs, r \in AsrOutcomes, r2 \in AsrOutcomes, delivered \in Delivered :
         Commit(handler_send_done(S, exc, r, r2, delivered))
    /\ UNCHANGED <<inbox, nSent, peerGone, graceArrivals>>

(* ---------------------------- specification --------------------------- *)
Init ==
    /\ inbox = <<>> /\ nSent = 0 /\ peerGone = FALSE /\ graceArrivals = NoArrivals
    /\ out = <<>> /\ closeCode = 0 /\ sessions = {} /\ session_id = "None"
    /\ audio_buffer = <<>> /\ is_active = TRUE /\ sinceChunk = 0
    /\ process_until_timestamp = None /\ silence_check_task = NoTask
    /\ grace = NoGrace /\ pc = "accept" /\ ctx = "none" /\ hsend = "none"
    /\ asrLog = <<>> /\ lastFlush = NoFlush /\ lastOp = "none" /\ lastWall = None
    /\ exitBy = "none" /\ vad = NoCall /\ orphans = 0 /\ registry = NoRegistry

Next ==
    \/ ClientSend \/ PeerDisconnect \/ Tick
    \/ TimerFire \/ TimerSendDone
    \/ RecvInitial \/ HandleAudioChunk \/ HandleFlushBuffer \/ GraceEnd
    \/ HandleEndStream \/ HandleIgnored \/ HandleLoopError
    \/ RecvDisconnect \/ HandlerSendDone

Spec == Init /\ [][Next]_vars

\* The event loop runs every coroutine that is ready, and time passes; the
\* client is free to send nothing more and to stay connected.
ServerNext ==
    \/ Tick \/ TimerFire \/ TimerSendDone
    \/ RecvInitial \/ HandleAudioChunk \/ HandleFlushBuffer \/ GraceEnd
    \/ HandleEndStream \/ HandleIgnored \/ HandleLoopError
    \/ RecvDisconnect \/ HandlerSendDone

Fairness == WF_vars(ServerNext)

FairSpec == Spec /\ Fairness

(* ----------------- StreamingSession under direct callers -------------- *)
(* The session's methods called by coroutines other than handle_websocket: *)
(* calls are taken from inbox one at a time, and process_audio_chunk may   *)
(* be called while a flush_buffer_with_cutoff call sleeps its grace wait   *)
(* (pc is then the position of the caller of process_audio_chunk).         *)
SessionChunks == {Msg("audio_chunk", 4000, <<1000>>, None, 0),
                  Msg("audio_chunk", 48000, <<1000>>, None, 0),
                  Msg("audio_chunk", 24000, <<1200>>, None, 0),
                  Msg("audio_chunk", 24000, None, None, 0)}

\* flush_buffer_with_cutoff(T, g), and flush_buffer_with_cutoff(T, "abc")
SessionMsgs == SessionChunks
               \cup {Msg("flush_buffer", 0, None, <<T>>, g) : T \in Cutoffs, g \in GracePeriods}
               \cup {Msg("flush_buffer_str_grace", 0, None, <<T>>, 0) : T \in Cutoffs}

SessionCall ==
    /\ nSent < MaxCalls /\ inbox = <<>>
    /\ \E m0 \in SessionMsgs : inbox' = Append(inbox, [m0 EXCEPT !.id = nSent + 1])
    /\ nSent' = nSent + 1
    /\ UNCHANGED <<peerGone, graceArrivals, out, closeCode, sessions, session_id,
                   audio_buffer, is_active, sinceChunk, process_until_timestamp,
                   silence_check_task, grace, pc, ctx, hsend, asrLog, lastFlush,
                   lastOp, lastWall, exitBy, vad, orphans,
                   registry>>

SessionFlushWithCutoff ==
    /\ pc = "recv" /\ ~grace.on
    /\ inbox # <<>> /\ Head(inbox).type = "flush_buffer"
    /\ inbox' = Tail(inbox)
    /\ LET m == Head(inbox)
       IN \E delivered \in Delivered :
            Commit(read_loop(flush_buffer_with_cutoff(S, m.id, m.cutoff[1], m.grace,
                                                      delivered)))
    /\ UNCHANGED <<nSent, peerGone, graceArrivals>>

\* time.time() is the system clock, asyncio.sleep runs on the loop's
\* monotonic clock: when the system clock is set back, the elapsed time
\* `time.time() - self.last_chunk_time` shrinks and the sleeps do not.
ClockSetBack ==
    /\ \E e \in ElapsedAfterSetBack : e < sinceChunk /\ sinceChunk' = e
    /\ UNCHANGED <<inbox, nSent, peerGone, graceArrivals, out, closeCode,
                   sessions, session_id, audio_buffer, is_active,
                   process_until_timestamp, silence_check_task, grace, pc, ctx,
                   hsend, asrLog, lastFlush, lastOp, lastWall, exitBy, vad, orphans,
                   registry>>

\* flush_buffer_with_cutoff called with a grace period that is not a number.
SessionFlushTypeError ==
    /\ pc = "recv" /\ ~grace.on
    /\ inbox # <<>> /\ Head(inbox).type = "flush_buffer_str_grace"
    /\ inbox' = Tail(inbox)
    /\ LET m == Head(inbox)
       IN \E delivered \in Delivered :
            Commit(flush_buffer_with_cutoff_raises(
                       flush_buffer_with_cutoff(S, m.id, m.cutoff[1], 0, delivered)))
    /\ UNCHANGED <<nSent, peerGone, graceArrivals>>

\* The task that called flush_buffer_with_cutoff is cancelled during the
\* grace wait.
SessionGraceCancelled ==
    /\ pc = "recv" /\ grace.on
    /\ Commit(flush_buffer_with_cutoff_raises(S))
    /\ UNCHANGED <<inbox, nSent, peerGone, graceArrivals>>

SessionGraceEnd ==
    /\ pc = "recv" /\ grace.on /\ grace.remaining = 0
    /\ \E r \in AsrOutcomes, r2 \in AsrOutcomes :
         Commit(evaluate_buffer([S EXCEPT !.grace = NoGrace, !.ctx = "api_cutoff"],
                                grace.id, r, r2))
    /\ UNCHANGED <<inbox, nSent, peerGone, graceArrivals>>

InitSession ==
    /\ inbox = <<>> /\ nSent = 0 /\ peerGone = FALSE /\ graceArrivals = NoArrivals
    /\ out = <<>> /\ closeCode = 0 /\ sessions = {"s1"} /\ session_id = "s1"
    /\ audio_buffer = <<>> /\ is_active = TRUE /\ sinceChunk = 0
    /\ process_until_timestamp = None /\ silence_check_task = NoTask
    /\ grace = NoGrace /\ pc = "recv" /\ ctx = "none" /\ hsend = "none"
    /\ asrLog = <<>> /\ lastFlush = NoFlush /\ lastOp = "none" /\ lastWall = None
    /\ exitBy = "none" /\ vad = NoCall /\ orphans = 0 /\ registry = NoRegistry

NextSession ==
    \/ SessionCall \/ Tick
    \/ TimerFire \/ TimerSendDone
    \/ HandleAudioChunk \/ SessionFlushWithCutoff \/ SessionGraceEnd
    \/ SessionFlushTypeError \/ SessionGraceCancelled
    \/ ClockSetBack
    \/ HandlerSendDone

SpecSession == InitSession /\ [][NextSession]_vars

(* ------------------- vad.py: has_sufficient_speech -------------------- *)
(* A Python float is an IEEE 754 binary64 number.  A float x >= 0 is kept  *)
(* as [bits, exp]: bits is its significand, most significant bit first,    *)
(* with a leading 1 and at most Precision bits, and x = bits * 2^exp; zero *)
(* has no bits.  The numbers of this module stay far from the overflow and *)
(* subnormal ranges, which are not modelled.                               *)
Precision == 53
FracLimbs == 8            \* digits computed after the point of a quotient
LimbBits == 10            \* bits of one such digit
MulBits == 12             \* bits of one digit of a significand being multiplied

SampleRates == {8000, 11025, 16000}         \* sample_rate arguments
Durations == {0, 140, 250, 1000, 2007}      \* min_speech_duration_ms arguments
BufferLengths(sample_rate, ms) ==           \* len(audio_buffer) arguments
    LET t == (sample_rate * 2 * ms) \div 1000
    IN {n \in {0, t - 1, t, t + 1, 2 * t, 3 * t + 2} : n >= 0}

Zero == [bits |-> <<>>, exp |-> 0]

Bit(n, k) == (n \div 2^k) % 2

Width(n) == CHOOSE w \in 0..30 : n < 2^w /\ (w = 0 \/ n >= 2^(w - 1))

NatBits(n) == [i \in 1..Width(n) |-> Bit(n, Width(n) - i)]

RECURSIVE BitsNat(_)
BitsNat(b) ==
    IF b = <<>> THEN 0
    ELSE IF Len(b) = 1 THEN b[1]
    ELSE LET h == Len(b) \div 2
         IN BitsNat(SubSeq(b, 1, h)) * 2^(Len(b) - h) + BitsNat(SubSeq(b, h + 1, Len(b)))

\* b without its leading zeros
Strip(b) ==
    IF \A i \in DOMAIN b : b[i] = 0 THEN <<>>
    ELSE LET k == CHOOSE i \in DOMAIN b : b[i] = 1 /\ \A j \in 1..(i - 1) : b[j] = 0
         IN SubSeq(b, k, Len(b))

\* b + 1
Increment(b) ==
    LET zeros == {i \in DOMAIN b : b[i] = 0}
    IN IF zeros = {} THEN <<1>> \o [i \in DOMAIN b |-> 0]
       ELSE LET k == CHOOSE i \in zeros : \A j \in zeros : j <= i
            IN [i \in DOMAIN b |-> IF i < k THEN b[i] ELSE IF i = k THEN 1 ELSE 0]

\* The digits of w bits each, most significant first, as bits.
DigitsBits(digits, w) ==
    [i \in 1..(Len(digits) * w) |-> Bit(digits[(i - 1) \div w + 1], (w - 1) - ((i - 1) % w))]

\* bits as digits of w bits each, most significant first.
BitsDigits(bits, w) ==
    LET n == (Len(bits) + w - 1) \div w
        pad == n * w - Len(bits)
        padded == [i \in 1..(n * w) |-> IF i <= pad THEN 0 ELSE bits[i - pad]]
    IN [k \in 1..n |-> BitsNat(SubSeq(padded, (k - 1) * w + 1, k * w))]

\* Round bits * 2^exp (sticky: a non-zero part below the last bit was
\* dropped) to Precision bits, to nearest, ties to even.
float_round(bits, exp, sticky) ==
    IF Len(bits) <= Precision THEN [bits |-> bits, exp |-> exp]
    ELSE LET keep == SubSeq(bits, 1, Precision)
             rest == SubSeq(bits, Precision + 1, Len(bits))
             more == sticky \/ \E i \in 2..Len(rest) : rest[i] = 1
             up == rest[1] = 1 /\ (more \/ keep[Precision] = 1)
             e == exp + Len(rest)
             inc == Increment(keep)
         IN IF ~up THEN [bits |-> keep, exp |-> e]
            ELSE IF Len(inc) > Precision
                 THEN [bits |-> SubSeq(inc, 1, Precision), exp |-> e + 1]
                 ELSE [bits |-> inc, exp |-> e]

\* (r * 2^(LimbBits * k)) % b
RECURSIVE remainder_after(_, _, _)
remainder_after(r, b, k) ==
    IF k = 0 THEN r ELSE (remainder_after(r, b, k - 1) * 2^LimbBits) % b

\* The binary expansion of a / b to FracLimbs * LimbBits bits after the
\* point: more than a float holds for a quotient above 2^-LimbBits.
quotient_bits(a, b) ==
    LET r == a % b
        digits == [k \in 1..FracLimbs |->
                      (remainder_after(r, b, k - 1) * 2^LimbBits) \div b]
    IN [bits |-> Strip(NatBits(a \div b) \o DigitsBits(digits, LimbBits)),
        exp |-> -(FracLimbs * LimbBits),
        sticky |-> remainder_after(r, b, FracLimbs) # 0]

\* int / int
true_div(a, b) ==
    IF a = 0 THEN Zero
    ELSE LET q == quotient_bits(a, b)
         IN float_round(q.bits, q.exp, q.sticky)

\* digits * n + carry: the digits of the product and the carry out of them
RECURSIVE digits_times(_, _, _)
digits_times(digits, n, carry) ==
    IF digits = <<>> THEN [digits |-> <<>>, carry |-> carry]
    ELSE LET t == digits[Len(digits)] * n + carry
             rest == digits_times(SubSeq(digits, 1, Len(digits) - 1), n,
                                  t \div 2^MulBits)
         IN [digits |-> Append(rest.digits, t % 2^MulBits), carry |-> rest.carry]

\* bits * n, as bits
times_small(bits, n) ==
    LET p == digits_times(BitsDigits(bits, MulBits), n, 0)
    IN Strip(NatBits(p.carry) \o DigitsBits(p.digits, MulBits))

\* int * float
int_times_float(n, x) ==
    IF n = 0 \/ x.bits = <<>> THEN Zero
    ELSE float_round(times_small(x.bits, n), x.exp, FALSE)

\* int(float)
float_to_int(x) ==
    IF x.exp >= 0 THEN BitsNat(x.bits) * 2^(x.exp)
    ELSE IF Len(x.bits) + x.exp <= 0 THEN 0
    ELSE BitsNat(SubSeq(x.bits, 1, Len(x.bits) + x.exp))

\* int >= float: Python compares the two numbers exactly
int_ge_float(n, x) ==
    LET frac == /\ x.exp < 0
                /\ \E i \in DOMAIN x.bits : i > Len(x.bits) + x.exp /\ x.bits[i] = 1
    IN IF frac THEN n > float_to_int(x) ELSE n >= float_to_int(x)

PyBool(b) == IF b THEN "True" ELSE "False"

\* has_sufficient_speech(audio_buffer, sample_rate, min_speech_duration_ms)
\* on a buffer of len bytes; speech[i] is what is_speech answers for the
\* i-th sampled portion.  Gives the returned value (or the exception
\* raised) and the number of is_speech calls made.
has_sufficient_speech(enabled, len, sample_rate, min_speech_duration_ms, speech) ==
    IF ~enabled
    THEN LET vad_min_bytes ==
                 int_times_float(sample_rate * 2, true_div(min_speech_duration_ms, 1000))
         IN [ret |-> PyBool(int_ge_float(len, vad_min_bytes)), is_speech_calls |-> 0]
    ELSE LET vad_min_samples ==
                 float_to_int(int_times_float(sample_rate,
                                              true_div(min_speech_duration_ms, 1000)))
             vad_min_bytes == vad_min_samples * 2
         IN IF len < vad_min_bytes THEN [ret |-> "False", is_speech_calls |-> 0]
            ELSE IF vad_min_bytes = 0
                 THEN [ret |-> "ZeroDivisionError", is_speech_calls |-> 0]
            ELSE LET num_samples == Min(3, len \div vad_min_bytes)
                     speech_detections ==
                         Cardinality({i \in 1..num_samples : speech[i]})
                 IN [ret |-> PyBool(int_ge_float(speech_detections,
                                                 true_div(num_samples, 2))),
                     is_speech_calls |-> num_samples]

VadCall ==
    /\ ~vad.called
    /\ LET r == has_sufficient_speech(vad.enabled, vad.len, vad.sample_rate,
                                      vad.min_speech_duration_ms, vad.speech)
       IN vad' = [vad EXCEPT !.called = TRUE, !.ret = r.ret,
                             !.is_speech_calls = r.is_speech_calls]
    /\ UNCHANGED <<inbox, nSent, peerGone, graceArrivals, out, closeCode, sessions,
                   session_id, audio_buffer, is_active, sinceChunk,
                   process_until_timestamp, silence_check_task, grace, pc, ctx,
                   hsend, asrLog, lastFlush, lastOp, lastWall, exitBy, orphans,
                   registry>>

InitVad ==
    /\ inbox = <<>> /\ nSent = 0 /\ peerGone = FALSE /\ graceArrivals = NoArrivals
    /\ out = <<>> /\ closeCode = 0 /\ sessions = {} /\ session_id = "None"
    /\ audio_buffer = <<>> /\ is_active = TRUE /\ sinceChunk = 0
    /\ process_until_timestamp = None /\ silence_check_task = NoTask
    /\ grace = NoGrace /\ pc = "done" /\ ctx = "none" /\ hsend = "none"
    /\ asrLog = <<>> /\ lastFlush = NoFlush /\ lastOp = "none" /\ lastWall = None
    /\ exitBy = "none" /\ orphans = 0 /\ registry = NoRegistry
    /\ \E enabled \in BOOLEAN, sample_rate \in SampleRates, ms \in Durations :
         \E len \in BufferLengths(sample_rate, ms), speech \in [1..3 -> BOOLEAN] :
            vad = [called |-> FALSE, enabled |-> enabled, len |-> len,
                   sample_rate |-> sample_rate, min_speech_duration_ms |-> ms,
                   speech |-> speech, ret |-> "none", is_speech_calls |-> 0]

NextVad == VadCall

SpecVad == InitVad /\ [][NextVad]_vars

(* ------------- StreamingManager.sessions and its connections --------- *)
(* Several connections run handle_websocket on the one StreamingManager:   *)
(* registry.sessions is the dict self.sessions, from session id to the     *)
(* connection whose StreamingSession object the entry holds, and           *)
(* registry.conn[c] is connection c's position in handle_websocket and its *)
(* local session_id.                                                       *)
NConns == 3                       \* connections the manager serves
NClientIds == 2                   \* session ids the clients choose from
Conns == 1 .. NConns
NoId == [kind |-> "none", n |-> 0]
ClientSessionIds == {[kind |-> "client", n |-> i] : i \in 1 .. NClientIds}

\* `str(uuid.uuid4())`: an id no other call returns.
uuid4(c) == [kind |-> "uuid", n |-> c]

\* `self.sessions[session_id] = session` of create_session
manager_create_session(d, id, c) ==
    [k \in DOMAIN d \cup {id} |-> IF k = id THEN c ELSE d[k]]

\* `if session_id in self.sessions: del self.sessions[session_id]`
manager_remove_session(d, id) ==
    IF id \in DOMAIN d THEN [k \in DOMAIN d \ {id} |-> d[k]] ELSE d

RegUnchanged ==
    UNCHANGED <<inbox, nSent, peerGone, graceArrivals, out, closeCode, sessions,
                session_id, audio_buffer, is_active, sinceChunk,
                process_until_timestamp, silence_check_task, grace, pc, ctx,
                hsend, asrLog, lastFlush, lastOp, lastWall, exitBy, vad, orphans>>

\* The initial message is a connect: the id is the client's, or a uuid when
\* the client gave none or an empty one; the session is registered and the
\* coroutine awaits the send of the confirmation.
RegConnect(c) ==
    /\ registry.conn[c].pc = "accept"
    /\ \E sent \in ClientSessionIds \cup {NoId} :
         LET id == IF sent = NoId THEN uuid4(c) ELSE sent
         IN registry' = [registry EXCEPT
                           !.conn[c] = [pc |-> "confirm", session_id |-> id],
                           !.sessions = manager_create_session(@, id, c)]
    /\ RegUnchanged

\* The initial message is no connect, is no JSON, or never comes:
\* session_id is still None and the finally block removes nothing.
RegInitialRejected(c) ==
    /\ registry.conn[c].pc = "accept"
    /\ registry' = [registry EXCEPT !.conn[c].pc = "done"]
    /\ RegUnchanged

\* The confirmation is sent and the coroutine enters `while True:`.
RegConfirmed(c) ==
    /\ registry.conn[c].pc = "confirm"
    /\ registry' = [registry EXCEPT !.conn[c].pc = "loop"]
    /\ RegUnchanged

\* The send of the confirmation raises, or the read loop is left: the
\* finally block starts and awaits session.flush_buffer().
RegLoopExit(c) ==
    /\ registry.conn[c].pc \in {"confirm", "loop"}
    /\ registry' = [registry EXCEPT !.conn[c].pc = "finally"]
    /\ RegUnchanged

\* flush_buffer has returned or raised: `self.remove_session(session_id)`.
RegTeardown(c) ==
    /\ registry.conn[c].pc = "finally"
    /\ registry' = [registry EXCEPT
                      !.conn[c].pc = "done",
                      !.sessions = manager_remove_session(@, registry.conn[c].session_id)]
    /\ RegUnchanged

InitRegistry ==
    /\ inbox = <<>> /\ nSent = 0 /\ peerGone = FALSE /\ graceArrivals = NoArrivals
    /\ out = <<>> /\ closeCode = 0 /\ sessions = {} /\ session_id = "None"
    /\ audio_buffer = <<>> /\ is_active = TRUE /\ sinceChunk = 0
    /\ process_until_timestamp = None /\ silence_check_task = NoTask
    /\ grace = NoGrace /\ pc = "done" /\ ctx = "none" /\ hsend = "none"
    /\ asrLog = <<>> /\ lastFlush = NoFlush /\ lastOp = "none" /\ lastWall = None
    /\ exitBy = "none" /\ vad = NoCall /\ orphans = 0
    /\ registry = [conn |-> [c \in Conns |-> [pc |-> "accept", session_id |-> NoId]],
                   sessions |-> <<>>]

NextRegistry ==
    \E c \in Conns :
        \/ RegConnect(c) \/ RegInitialRejected(c) \/ RegConfirmed(c)
        \/ RegLoopExit(c) \/ RegTeardown(c)

SpecRegistry == InitRegistry /\ [][NextRegistry]_vars

(* ============================== claims =============================== *)
Ids(buf) == {buf[i].id : i \in DOMAIN buf}
Last(q) == q[Len(q)]
NewAttempts == {out'[i] : i \in (Len(out) + 1)..Len(out')}
HasTs(c) == c.ts # None

\* A step in which the read loop takes an audio_chunk message and calls
\* process_audio_chunk on it.
ChunkStep ==
    /\ pc = "recv" /\ inbox # <<>> /\ Head(inbox).type = "audio_chunk"
    /\ inbox' = Tail(inbox)

\* The chunk of a ChunkStep is accepted: no cutoff is set, or its timestamp
\* does not exceed it.
AcceptedNow ==
    \/ process_until_timestamp = None
    \/ HasTs(Head(inbox)) /\ Head(inbox).ts[1] <= process_until_timestamp[1]

C2_NoChunkAfterCutoffTranscribed ==
    \A i \in DOMAIN asrLog :
        asrLog[i].cutoff # None =>
            \A j \in DOMAIN asrLog[i].chunks :
                HasTs(asrLog[i].chunks[j]) =>
                    asrLog[i].chunks[j].ts[1] <= asrLog[i].cutoff[1]

(* C3: a chunk with timestamp <= T that arrives during the grace wait of a *)
(* cutoff flush is serviced during the wait and is part of the buffer the  *)
(* flush evaluates.                                                        *)
C3_GraceArrivalsIncluded ==
    (lastFlush.by = "cutoff" /\ graceArrivals.id = lastFlush.id) =>
        \A j \in DOMAIN graceArrivals.chunks :
            (HasTs(graceArrivals.chunks[j])
               /\ graceArrivals.chunks[j].ts[1] <= lastFlush.cutoff[1])
            => graceArrivals.chunks[j].id \in Ids(lastFlush.buf)

(* C4: connect, audio_chunk(timestamp 1000), flush_buffer{cutoffTimestamp  *)
(* 1000, gracePeriodMs 200}, audio_chunk(timestamp 1200) arriving during   *)
(* the grace wait: the second chunk is never appended to audio_buffer, and *)
(* the cutoff flush evaluates the first chunk only.                        *)
Scenario4 ==
    /\ lastFlush.by = "cutoff" /\ lastFlush.id = 3 /\ lastFlush.cutoff = <<1000>>
    /\ Len(lastFlush.buf) = 1
    /\ lastFlush.buf[1].id = 2 /\ lastFlush.buf[1].ts = <<1000>>
    /\ graceArrivals.id = 3 /\ graceArrivals.G = 200
    /\ Len(graceArrivals.chunks) = 1
    /\ graceArrivals.chunks[1].id = 4 /\ graceArrivals.chunks[1].ts = <<1200>>

C4_SecondChunkDropped ==
    Scenario4 => 4 \notin Ids(audio_buffer)

(* C5: process_audio_chunk called while process_until_timestamp is set     *)
(* with a timestamp (the wall clock in ms when the chunk has none) above   *)
(* it changes nothing: buffer, last_chunk_time, the armed timer, no ASR    *)
(* call, no message.  Any other chunk is appended, last_chunk_time is set, *)
(* and the buffer is flushed at the threshold or the timer is re-armed.    *)
C5_ChunkAfterCutoffDropped ==
    [][ ChunkStep =>
          LET m == Head(inbox)
              grown == Append(audio_buffer, Chunk(m))
              late == /\ process_until_timestamp # None
                      /\ (IF HasTs(m) THEN m.ts[1] ELSE lastWall'[1])
                           > process_until_timestamp[1]
          IN IF late
             THEN /\ audio_buffer' = audio_buffer
                  /\ sinceChunk' = sinceChunk
                  /\ silence_check_task' = silence_check_task
                  /\ out' = out /\ asrLog' = asrLog
                  /\ is_active' = is_active /\ pc' = "recv"
                  /\ process_until_timestamp' = process_until_timestamp
             ELSE /\ sinceChunk' = 0
                  /\ IF BufLen(grown) >= 48000
                     THEN audio_buffer' = <<>> /\ Last(asrLog').chunks = grown
                     ELSE /\ audio_buffer' = grown /\ asrLog' = asrLog
                          /\ silence_check_task'.st = "sleep"
                          /\ silence_check_task'.remaining = 800 ]_vars

\* Three calls were made: process_audio_chunk, flush_buffer_with_cutoff,
\* and during its grace wait a process_audio_chunk that was dropped.
C5_Witness ==
    /\ grace.on /\ grace.id = 2 /\ process_until_timestamp # None
    /\ nSent = 3 /\ inbox = <<>> /\ pc = "recv"
    /\ Ids(audio_buffer) = {1} /\ sinceChunk > 0

(* C6: flush_buffer leaves audio_buffer empty when it returns, whatever    *)
(* the outcome; a buffer below 8000 bytes is discarded without an ASR      *)
(* call, and a buffer of 8000 bytes or more is cleared only with an ASR    *)
(* call made on it.                                                        *)
FlushBufferReturned ==
    \/ pc = "send" /\ hsend \in {"buffer_flushed", "stream_ended"}
       /\ ctx \in {"flush", "end"}
    \/ pc = "done" /\ session_id # "None"

C6_FlushBufferClears ==
    /\ FlushBufferReturned => audio_buffer = <<>>
    /\ lastFlush.by \in {"flush", "end", "final"} =>
         IF BufLen(lastFlush.buf) < 8000
         THEN \A i \in DOMAIN asrLog : Ids(asrLog[i].chunks) \cap Ids(lastFlush.buf) = {}
         ELSE /\ Ids(audio_buffer) \cap Ids(lastFlush.buf) = {}
              /\ \E i \in DOMAIN asrLog :
                    asrLog[i].chunks = lastFlush.buf /\ asrLog[i].by = lastFlush.by

\* A flush_buffer message found 8000 bytes or more, the ASR raised, and
\* flush_buffer has returned.
C6_Witness ==
    /\ pc = "send" /\ hsend = "buffer_flushed" /\ ctx = "flush"
    /\ BufLen(lastFlush.buf) >= 8000
    /\ \E i \in DOMAIN asrLog :
          asrLog[i].chunks = lastFlush.buf /\ asrLog[i].res = "raise"

(* C7: a flush_buffer call that follows a flush_buffer call with no chunk  *)
(* accepted in between makes no ASR call, sends no transcription or error  *)
(* message and changes no session state.                                   *)
FlushBufferStep ==
    lastFlush' # lastFlush /\ lastFlush'.by \in {"flush", "end", "final"}

C7_SecondFlushIsNoOp ==
    [][ (FlushBufferStep /\ lastOp = "flush_buffer") =>
          /\ asrLog' = asrLog
          /\ audio_buffer' = audio_buffer /\ is_active' = is_active
          /\ process_until_timestamp' = process_until_timestamp
          /\ silence_check_task' = silence_check_task
          /\ sinceChunk' = sinceChunk
          /\ \A a \in NewAttempts :
                a.type \notin {"transcription", "error", "transcription_final"}
          /\ pc' = "send" => hsend' \in {"buffer_flushed", "stream_ended"} ]_vars

\* end_stream flushed and transcribed the buffer, and the finally block has
\* called flush_buffer again.
C7_Witness ==
    /\ lastOp = "flush_buffer" /\ lastFlush.by = "final" /\ pc = "done"
    /\ \E i \in DOMAIN asrLog : asrLog[i].by = "end"
    /\ \E i \in DOMAIN out : out[i].type = "stream_ended"

(* C8: when the ASR call of a flush raises, exactly one error message is   *)
(* sent, the buffer is empty afterwards and is_active stays TRUE (stated   *)
(* for a peer that is still connected).                                    *)
NRaised ==
    Cardinality({i \in DOMAIN asrLog :
                    asrLog[i].res = "raise" /\ asrLog[i].by # "remaining"})
NErrorSent ==
    Cardinality({i \in DOMAIN out : out[i].type = "error" /\ out[i].res = "sent"})
NErrorPending ==
    (IF pc = "send" /\ hsend = "error" THEN 1 ELSE 0)
    + (IF silence_check_task.st = "send" /\ silence_check_task.sending = "error"
       THEN 1 ELSE 0)

C8_AsrErrorReported ==
    ~peerGone =>
        /\ is_active
        /\ NRaised = NErrorSent + NErrorPending
        /\ (pc = "send" /\ hsend = "error") => audio_buffer = <<>>

(* C9: once a failed send has marked the session inactive, no further send *)
(* is attempted on its websocket, the teardown flush included.             *)
C9_NoSendOnceInactive ==
    [][ ~is_active => out' = out ]_vars

(* C10: is_active never goes back to TRUE, and once it is FALSE no         *)
(* operation changes the buffer, calls the ASR or sends a message.         *)
C10_InactiveSessionIsInert ==
    [][ ~is_active =>
          /\ ~is_active'
          /\ audio_buffer' = audio_buffer
          /\ asrLog' = asrLog
          /\ out' = out ]_vars

(* C11: while the transport has not failed, every ASR call that returned   *)
(* non-blank text has exactly one transcription message, sent or being     *)
(* sent, and no other transcription message exists: one per flush with     *)
(* text, none for a flush with blank text, under every interleaving of the *)
(* silence-check task with the connection's coroutine.                     *)
NText ==
    Cardinality({i \in DOMAIN asrLog : asrLog[i].res = "text"})
NTranscriptionSent ==
    Cardinality({i \in DOMAIN out :
                    /\ out[i].type \in {"transcription", "transcription_final"}
                    /\ out[i].res = "sent"})
NTranscriptionPending ==
    (IF pc = "send" /\ hsend \in {"transcription", "transcription_final"}
     THEN 1 ELSE 0)
    + (IF silence_check_task.st = "send"
          /\ silence_check_task.sending = "transcription"
       THEN 1 ELSE 0)

C11_OneTranscriptionPerFlush ==
    ~peerGone => NText = NTranscriptionSent + NTranscriptionPending

(* C12: the chunks passed to the ASR, concatenated in the order of the     *)
(* calls, are in arrival order without repetition (chunk ids number the    *)
(* arrivals), and everything still buffered arrived after them.            *)
RECURSIVE AsrChunks(_)
AsrChunks(log) ==
    IF log = <<>> THEN <<>> ELSE Head(log).chunks \o AsrChunks(Tail(log))

InArrivalOrder(q) == \A i \in 1..(Len(q) - 1) : q[i].id < q[i + 1].id

C12_NoDuplicateNoReorder ==
    InArrivalOrder(AsrChunks(asrLog) \o audio_buffer)

\* A silence-timeout flush of one chunk was followed by a threshold flush
\* of the next two.
C12_Witness ==
    /\ Len(asrLog) = 2
    /\ asrLog[1].by = "silence" /\ Len(asrLog[1].chunks) = 1
    /\ asrLog[2].by = "chunk" /\ Len(asrLog[2].chunks) = 2

(* C13: a connection that completed connect and has ended (end_stream,     *)
(* peer disconnect, error in the read loop) has had its final flush_buffer *)
(* before its id left the registry: the timer is cancelled, the buffer is  *)
(* empty, no flush follows the final one; and every such connection        *)
(* eventually has no registry entry, whatever the final flush met.         *)
ConnectionEnded ==
    session_id # "None" /\ (peerGone \/ closeCode # 0 \/ exitBy # "none")

C13_FinalFlushThenRemoved ==
    /\ []( (session_id # "None" /\ session_id \notin sessions) =>
             /\ pc = "done" /\ lastFlush.by = "final"
             /\ audio_buffer = <<>>
             /\ silence_check_task.st \notin {"sleep", "send"} )
    /\ [][ lastFlush.by = "final" => lastFlush' = lastFlush ]_vars
    /\ (ConnectionEnded ~> (sessions = {} /\ pc = "done"))

\* The read loop was left on an exception, the final flush transcribed what
\* was buffered and the ASR raised, and the session is removed.
C13_Witness ==
    /\ pc = "done" /\ session_id = "s1" /\ sessions = {}
    /\ exitBy = "loop_exception"
    /\ \E i \in DOMAIN asrLog : asrLog[i].by = "final" /\ asrLog[i].res = "raise"

(* C14: when the first message of a connected peer is not a valid connect  *)
(* message (another type, invalid JSON), the connection is closed with     *)
(* code 1008 and the registry holds no session.                            *)
C14_InvalidFirstMessageCloses1008 ==
    (pc = "done" /\ session_id = "None" /\ ~peerGone /\ exitBy # "disconnect") =>
        closeCode = 1008 /\ sessions = {}

(* C15: after connect, reading a message that is invalid JSON or has an    *)
(* unhandled type leaves the connection open and the handler in the read   *)
(* loop, and changes neither audio_buffer, nor the cutoff, nor the silence *)
(* task, nor the registry, nor what was sent.                              *)
IgnoredStep ==
    /\ pc = "recv" /\ inbox # <<>> /\ Head(inbox).type \in {"malformed", "unknown"}
    /\ inbox' = Tail(inbox)

C15_IgnoredMessageChangesNothing ==
    [][ IgnoredStep =>
          /\ pc' = "recv" /\ closeCode' = 0 /\ exitBy' = "none"
          /\ audio_buffer' = audio_buffer
          /\ process_until_timestamp' = process_until_timestamp
          /\ silence_check_task' = silence_check_task
          /\ sessions' = sessions /\ out' = out /\ asrLog' = asrLog ]_vars

\* A chunk is buffered with its timer armed, and the message after it was
\* read and ignored.
C15_Witness ==
    /\ pc = "recv" /\ nSent = 3 /\ inbox = <<>>
    /\ Ids(audio_buffer) = {2} /\ silence_check_task.st = "sleep"
    /\ lastFlush = NoFlush /\ closeCode = 0 /\ exitBy = "none"

(* C16: when the read loop is left on an exception that is neither a peer  *)
(* disconnect nor a JSON decode error, the connection of a connected peer  *)
(* is closed with code 1011.                                               *)
C16_LoopExceptionCloses1011 ==
    (pc = "done" /\ exitBy = "loop_exception" /\ ~peerGone) => closeCode = 1011

(* C17: a flush_buffer message read after connect runs                     *)
(* flush_buffer_with_cutoff when it carries a cutoffTimestamp and          *)
(* flush_buffer otherwise; buffer_flushed is sent once per message, by the *)
(* handler, only when that flush has returned (buffer empty, cutoff        *)
(* cleared), hence after the transcription the flush produced.             *)
FlushMessageStep ==
    /\ pc = "recv" /\ inbox # <<>> /\ Head(inbox).type = "flush_buffer"
    /\ inbox' = Tail(inbox)

RunsTheRightFlush ==
    FlushMessageStep =>
        IF Head(inbox).cutoff # None
        THEN /\ pc' = "grace"
             /\ process_until_timestamp' = Head(inbox).cutoff
        ELSE /\ lastFlush'.by = "flush" /\ lastFlush'.id = Head(inbox).id
             /\ process_until_timestamp' = process_until_timestamp

AnsweredAfterTheFlush ==
    (out' # out /\ Last(out').type = "buffer_flushed") =>
        /\ pc = "send" /\ hsend = "buffer_flushed"
        /\ lastFlush.by \in {"flush", "cutoff"}
        /\ lastOp \in {"flush_buffer", "flush_buffer_with_cutoff"}
        /\ audio_buffer = <<>> /\ process_until_timestamp = None
        /\ Cardinality({i \in DOMAIN out' : out'[i].type = "buffer_flushed"})
             = Cardinality({i \in DOMAIN out : out[i].type = "buffer_flushed"}) + 1

C17_FlushMessageAnswered ==
    [][ RunsTheRightFlush /\ AnsweredAfterTheFlush ]_vars

(* C18: on end_stream the handler first runs flush_buffer to its end (the  *)
(* transcription it produced is sent), then sends stream_ended, then       *)
(* closes with code 1000; nothing is sent after stream_ended and no        *)
(* message is read from the socket once end_stream has been read.          *)
StreamEndedSent == [type |-> "stream_ended", res |-> "sent", by |-> "handler"]

C18_EndStreamOrder ==
    /\ []( /\ \A i \in DOMAIN out : out[i].type = "stream_ended" => i = Len(out)
           /\ (pc = "send" /\ hsend = "stream_ended") =>
                /\ lastFlush.by = "end" /\ lastOp = "flush_buffer"
                /\ audio_buffer = <<>> /\ closeCode = 0
                /\ (\E i \in DOMAIN asrLog :
                       asrLog[i].by = "end" /\ asrLog[i].res = "text")
                     => \E j \in DOMAIN out :
                           out[j].type = "transcription" /\ out[j].by = "handler"
           /\ closeCode = 1000 =>
                out # <<>> /\ Last(out) = StreamEndedSent /\ pc = "done"
           /\ (\E i \in DOMAIN out : out[i] = StreamEndedSent) => closeCode = 1000 )
    /\ [][ ctx = "end" => SubSeq(inbox', 1, Len(inbox)) = inbox ]_vars

\* end_stream flushed a buffered chunk, its transcription and stream_ended
\* were sent, the connection is closed, and a message that arrived after
\* end_stream is still unread.
C18_Witness ==
    /\ closeCode = 1000 /\ pc = "done" /\ exitBy = "end_stream"
    /\ Len(out) = 3 /\ out[2].type = "transcription" /\ out[2].res = "sent"
    /\ out[3] = StreamEndedSent
    /\ inbox # <<>>

(* C19 (as stated): when the first two chunks after connect are 48000      *)
(* bytes each, only the first is flushed by the threshold; the second is   *)
(* not part of any threshold flush.                                        *)
TwoFullChunksAccepted ==
    LET all == AsrChunks(asrLog) \o audio_buffer
    IN \A n \in {2, 3} : \E k \in DOMAIN all : all[k].id = n /\ all[k].size = 48000

DisabledCallReturned == vad.called /\ ~vad.enabled

C20_DisabledIsByteLengthCheck ==
    DisabledCallReturned =>
        /\ vad.ret = PyBool(vad.len * 1000 >=
                              vad.sample_rate * 2 * vad.min_speech_duration_ms)
        /\ vad.is_speech_calls = 0

\* The part of C20 that the code keeps: no is_speech call is made, and the
\* answer is the byte-length check for every length other than the
\* threshold itself.
C20_ExceptAtTheThreshold ==
    DisabledCallReturned =>
        /\ vad.is_speech_calls = 0
        /\ vad.len * 1000 # vad.sample_rate * 2 * vad.min_speech_duration_ms =>
              vad.ret = PyBool(vad.len * 1000 >=
                                 vad.sample_rate * 2 * vad.min_speech_duration_ms)

(* C21: a session has at most one live silence-check task (created, not    *)
(* finished, not cancelled) in every state: a task is armed only once the  *)
(* previous one is cancelled or finished; and while the task the session   *)
(* refers to is cancelled or finished, no ASR call is made by a silence    *)
(* check and no message is sent by the task.                               *)
TimerLive == silence_check_task.st \in {"sleep", "send"}

LiveTimers == orphans + (IF TimerLive THEN 1 ELSE 0)

C21_AtMostOneLiveTimer ==
    /\ [](LiveTimers <= 1)
    /\ [][ ~TimerLive =>
             /\ \A i \in (Len(asrLog) + 1)..Len(asrLog') : asrLog'[i].by # "silence"
             /\ \A a \in NewAttempts : a.by # "timer" ]_vars

\* Two chunks are buffered and no flush was made: the timer the first chunk
\* armed was still asleep when the second chunk cancelled it and armed its
\* own.
C21_Witness ==
    /\ pc = "recv" /\ Len(audio_buffer) = 2 /\ asrLog = <<>>
    /\ audio_buffer[1].size >= 8000
    /\ silence_check_task.st = "sleep" /\ silence_check_task.remaining = 800

(* C22: no two flushes of a session overlap.  While the flush of the       *)
(* silence-check task has started and not finished (it awaits the send of  *)
(* its transcription or error message), the connection's coroutine starts  *)
(* no flush without first awaiting the end of the task, as flush_buffer    *)
(* and flush_buffer_with_cutoff do; and while a flush of the connection's  *)
(* coroutine is in progress, the silence-check task starts none.           *)
TimerFlushInProgress == silence_check_task.st = "send"

HandlerFlushInProgress ==
    \/ pc = "grace"
    \/ pc = "send" /\ hsend \in {"transcription", "error", "transcription_final"}

NewAsrCalls == {asrLog'[i] : i \in (Len(asrLog) + 1)..Len(asrLog')}

C22_NoOverlappingFlushes ==
    [][ /\ TimerFlushInProgress => \A e \in NewAsrCalls : e.by # "chunk"
        /\ HandlerFlushInProgress => \A e \in NewAsrCalls : e.by # "silence" ]_vars

(* C23: the silence-check task acts on the session without interleaving.   *)
(* From the moment it has started acting (its sleep is over) until it has  *)
(* finished, the connection's coroutine makes no process_audio_chunk,      *)
(* flush_buffer or flush_buffer_with_cutoff call; and the task does not    *)
(* start acting while such a call is in progress.                          *)
SessionMethodCalled ==
    \/ /\ pc = "recv" /\ inbox # <<>> /\ inbox' = Tail(inbox)
       /\ \/ Head(inbox).type \in {"flush_buffer", "end_stream"}
          \/ Head(inbox).type = "audio_chunk" /\ Head(inbox).size > 0
    \/ lastFlush' # lastFlush

TimerStartsActing ==
    /\ silence_check_task.st = "sleep"
    /\ silence_check_task'.st \in {"send", "done"}

C23_TimerHandlerNotInterleaved ==
    [][ /\ TimerFlushInProgress => ~SessionMethodCalled
        /\ TimerStartsActing => ~HandlerFlushInProgress ]_vars

(* C24: process_until_timestamp is None whenever no                        *)
(* flush_buffer_with_cutoff call is in progress: the call that set it has  *)
(* cleared it when it is left, by return or by exception, so no chunk      *)
(* processed afterwards is compared against it.                            *)
CutoffFlushInProgress == grace.on \/ ctx \in {"cutoff", "api_cutoff"}

C24_CutoffClearedOnEveryPath ==
    ~CutoffFlushInProgress => process_until_timestamp = None

(* C25: when the sleep of the silence-check task the session refers to is  *)
(* over, the task does nothing if the time elapsed since last_chunk_time   *)
(* is below 800 ms; otherwise it makes one ASR call on the whole buffer    *)
(* and clears the buffer if the buffer holds 8000 bytes or more, and does  *)
(* nothing if it holds less.                                               *)
TimerFires ==
    /\ silence_check_task.st = "sleep" /\ silence_check_task.remaining = 0
    /\ silence_check_task'.st \in {"send", "done"}

TimerDoesNothing ==
    /\ asrLog' = asrLog /\ audio_buffer' = audio_buffer /\ out' = out
    /\ silence_check_task'.st = "done"

C25_SilenceTimerFlush ==
    [][ TimerFires =>
          IF sinceChunk < 800 THEN TimerDoesNothing
          ELSE IF BufLen(audio_buffer) >= 8000
               THEN /\ Len(asrLog') = Len(asrLog) + 1
                    /\ Last(asrLog').by = "silence"
                    /\ Last(asrLog').chunks = audio_buffer
                    /\ audio_buffer' = <<>>
               ELSE TimerDoesNothing ]_vars

\* A timer flushed a first chunk after 800 ms of silence; the timer of the
\* next chunk found less than 800 ms elapsed and left its 24000 bytes in the
\* buffer.
C25_Witness ==
    /\ Len(asrLog) = 1 /\ asrLog[1].by = "silence"
    /\ silence_check_task.st = "done" /\ sinceChunk < 800
    /\ BufLen(audio_buffer) >= 8000

(* C26: a process_audio_chunk call whose chunk brings the buffer to the    *)
(* threshold flushes the buffer and cancels the pending silence timer;     *)
(* when the call returns, no silence timer is pending for the session.     *)
ThresholdCallReturns ==
    \/ /\ ChunkStep /\ AcceptedNow
       /\ BufLen(Append(audio_buffer, Chunk(Head(inbox)))) >= 48000
       /\ pc' = "recv"
    \/ pc = "send" /\ ctx = "chunk" /\ pc' = "recv"

C26_ThresholdPreemptsTimer ==
    [][ ThresholdCallReturns =>
          /\ audio_buffer' = <<>>
          /\ silence_check_task'.st \notin {"sleep", "send"} ]_vars

(* C27: one call of flush_buffer or flush_buffer_with_cutoff makes at most *)
(* one ASR call and sends at most one transcription message: the           *)
(* "remaining audio" block makes no ASR call and sends no "final"          *)
(* transcription in any state, and once a flush call has made its ASR call *)
(* and awaits the send of the result, it makes no further ASR call and     *)
(* begins no further transcription.                                        *)
FlushCallAwaitsSend ==
    /\ pc = "send" /\ hsend \in {"transcription", "error"}
    /\ ctx \in {"flush", "cutoff", "api_cutoff", "end", "final"}

C27_OneAsrCallPerFlush ==
    /\ []( /\ \A i \in DOMAIN asrLog : asrLog[i].by # "remaining"
           /\ \A i \in DOMAIN out : out[i].type # "transcription_final"
           /\ ~(pc = "send" /\ hsend = "transcription_final") )
    /\ [][ /\ Len(asrLog') <= Len(asrLog) + 1
           /\ FlushCallAwaitsSend =>
                /\ NewAsrCalls = {}
                /\ (out' # out /\ pc' = "send") =>
                     hsend' \notin {"transcription", "transcription_final"} ]_vars

\* A flush_buffer message found 24000 bytes, the ASR returned text, the
\* transcription was sent and flush_buffer has returned: one ASR call and
\* one transcription for the call.
C27_Witness ==
    /\ pc = "send" /\ hsend = "buffer_flushed" /\ ctx = "flush"
    /\ Len(asrLog) = 1
    /\ asrLog[1].by = "flush" /\ asrLog[1].res = "text"
    /\ Cardinality({i \in DOMAIN out : out[i].type = "transcription"
                                        /\ out[i].res = "sent"}) = 1

(* C28: liveness of the silence trigger.  When a chunk was accepted and     *)
(* left between 8000 and 47999 bytes in audio_buffer, and no further       *)
(* message arrives on the connection (nothing is sent and the peer stays), *)
(* the silence timer armed by that chunk eventually fires: the buffer      *)
(* stays as it is until then, and the fire passes the whole buffer to the  *)
(* ASR and clears it.                                                      *)
ChunkLeftForTimer ==
    /\ pc = "recv" /\ inbox = <<>> /\ ~peerGone
    /\ BufLen(audio_buffer) >= min_bytes
    /\ BufLen(audio_buffer) < min_chunk_size

SilenceFlushed ==
    /\ audio_buffer = <<>>
    /\ asrLog # <<>> /\ asrLog[Len(asrLog)].by = "silence"

SilenceAsrCall ==
    /\ Len(asrLog') = Len(asrLog) + 1
    /\ asrLog'[Len(asrLog')].by = "silence"

HasEntry(reg, d) == reg.conn[d].session_id \in DOMAIN reg.sessions

TornDown(c) == registry.conn[c].pc = "finally" /\ registry'.conn[c].pc = "done"

C29_TeardownKeepsOtherEntries ==
    [][ \A c \in Conns : \A d \in Conns \ {c} :
          (TornDown(c) /\ registry.conn[d].pc = "loop" /\ HasEntry(registry, d))
              => HasEntry(registry', d) ]_vars

(* C31: a silence-timer fire that finds more than 0 and less than 8000     *)
(* bytes in audio_buffer leaves the buffer unchanged, makes no ASR call,   *)
(* sends no message and arms no new timer.  The bytes stay buffered: the   *)
(* next accepted chunk is appended behind them (and a threshold flush      *)
(* passes them to the ASR in front of it), or the next flush, explicit or  *)
(* at teardown, that still finds them below the floor discards them        *)
(* without an ASR call and without a transcription.                        *)
BelowFloor == 0 < BufLen(audio_buffer) /\ BufLen(audio_buffer) < min_bytes

LeftBelowFloor == silence_check_task.st = "done" /\ BelowFloor

AppendedBehind ==
    /\ ChunkStep /\ AcceptedNow
    /\ LET grown == Append(audio_buffer, Chunk(Head(inbox)))
       IN \/ audio_buffer' = grown /\ asrLog' = asrLog
          \/ /\ audio_buffer' = <<>>
             /\ Len(asrLog') = Len(asrLog) + 1
             /\ Last(asrLog').chunks = grown

DiscardedByFlush ==
    /\ lastFlush' # lastFlush /\ lastFlush'.buf = audio_buffer
    /\ lastFlush'.by \in {"flush", "cutoff", "api_cutoff", "end", "final"}
    /\ audio_buffer' = <<>> /\ asrLog' = asrLog
    /\ \A a \in NewAttempts :
          a.type \notin {"transcription", "error", "transcription_final"}
    /\ pc' = "send" => hsend' \in {"buffer_flushed", "stream_ended"}

C31_TimerLeavesSmallBuffer ==
    [][ /\ (TimerFires /\ BelowFloor) =>
              /\ TimerDoesNothing
              /\ pc' = pc /\ hsend' = hsend /\ lastFlush' = lastFlush
        /\ LeftBelowFloor =>
              \/ audio_buffer' = audio_buffer /\ asrLog' = asrLog
              \/ AppendedBehind
              \/ DiscardedByFlush ]_vars

\* The timer of a 4000-byte chunk has fired after 800 ms of silence and did
\* nothing: the chunk is still buffered, no ASR call was made and only the
\* connection confirmation was sent.
C31_Witness ==
    /\ LeftBelowFloor /\ sinceChunk >= silence_timeout
    /\ BufLen(audio_buffer) = 4000
    /\ asrLog = <<>> /\ Len(out) = 1 /\ pc = "recv"

====
